---- MODULE Spec2Model ----
(***************************************************************************)
(* Time axis of the candlestick chart (XAxisImp): the conversions between  *)
(* data index and pixel, and the tick generator that labels the visible    *)
(* bars according to the configured interval.                              *)
(*                                                                         *)
(* Units.  A timestamp is a whole number of minutes since 1970-01-01 00:00 *)
(* (the source counts milliseconds; every bar of the model is on a whole   *)
(* minute).  Date fields are read in one time zone, as `new Date(ts)` and  *)
(* the date formatter do when the chart runs in the browser's zone.        *)
(* Data indices are zero based as in the source: data[i] is dataList[i+1]. *)
(* A text is a sequence of one-character strings.                          *)
(***************************************************************************)
EXTENDS Integers, Sequences, FiniteSets, TLC

\* ------------------------------------------------------------------ bounds
\* longest bar array of the model
MaxBars == 3
\* widest bar spacing of the model, in units of two pixels
MaxBarSpace == 2
\* widest reference label ('00-00 00:00' in the tick font) of the model, in pixels
MaxLabelWidth == 3
\* largest text size of the style configurations of the model, in pixels
MaxTextSize == 2
\* largest price that is rounded
MaxPrice == 5100

\* ------------------------------------------------------------------ dates
\* `null` of the loop variables prevDay, prevMonth, prevWeek, prevYear; every
\* date field and week indicator of a bar is >= 0
Null == -1

\* days since 1970-01-01 of a civil date (used to write the bars of the model)
DaysFromCivil(y, m, d) ==
  LET yy  == IF m <= 2 THEN y - 1 ELSE y
      era == yy \div 400
      yoe == yy - era * 400
      mp  == IF m > 2 THEN m - 3 ELSE m + 9
      doy == (153 * mp + 2) \div 5 + d - 1
      doe == yoe * 365 + yoe \div 4 - yoe \div 100 + doy
  IN era * 146097 + doe - 719468

TimestampOf(y, m, d, h, mi) == (DaysFromCivil(y, m, d) * 24 + h) * 60 + mi

\* new Date(timestamp): the civil date fields of a timestamp
\* (month is 0..11 as Date.getMonth() returns it)
DateOf(timestamp) ==
  LET days == timestamp \div 1440
      mins == timestamp % 1440
      z    == days + 719468
      era  == z \div 146097
      doe  == z - era * 146097
      yoe  == (doe - doe \div 1460 + doe \div 36524 - doe \div 146096) \div 365
      doy  == doe - (365 * yoe + yoe \div 4 - yoe \div 100)
      mp   == (5 * doy + 2) \div 153
      d    == doy - (153 * mp + 2) \div 5 + 1
      m    == IF mp < 10 THEN mp + 3 ELSE mp - 9
      y    == yoe + era * 400 + (IF m <= 2 THEN 1 ELSE 0)
  IN [year |-> y, month |-> m - 1, day |-> d,
      hour |-> mins \div 60, minute |-> mins % 60]

getFullYear(timestamp) == DateOf(timestamp).year
getMonth(timestamp) == DateOf(timestamp).month
getDate(timestamp) == DateOf(timestamp).day

\* ------------------------------------------------------------------ texts
DigitChars == <<"0", "1", "2", "3", "4", "5", "6", "7", "8", "9">>

DigitChar(d) == DigitChars[d + 1]

IsDigit(c) == \E k \in 1..Len(DigitChars) : DigitChars[k] = c

\* `${n}`: the decimal digits of a non-negative integer, not padded
RECURSIVE NumberText(_)
NumberText(n) ==
  IF n < 10 THEN <<DigitChar(n)>>
  ELSE NumberText(n \div 10) \o <<DigitChar(n % 10)>>

\* n left-padded with zeros to w digits (the formatter's MM, DD, HH, mm, YYYY)
RECURSIVE PadText(_, _)
PadText(n, w) ==
  IF w = 0 THEN <<>>
  ELSE PadText(n \div 10, w - 1) \o <<DigitChar(n % 10)>>

MonthNames ==
  << <<"J","a","n">>, <<"F","e","b">>, <<"M","a","r">>, <<"A","p","r">>,
     <<"M","a","y">>, <<"J","u","n">>, <<"J","u","l">>, <<"A","u","g">>,
     <<"S","e","p">>, <<"O","c","t">>, <<"N","o","v">>, <<"D","e","c">> >>

\* dt.toLocaleString('default', {month: 'short'}) in an English locale
shortMonth(timestamp) == MonthNames[getMonth(timestamp) + 1]

\* formatDate(dateTimeFormat, timestamp, format, FormatDateType.XAxis)
formatDate(timestamp, format) ==
  LET dt == DateOf(timestamp)
      YYYY == PadText(dt.year, 4)
      MM   == PadText(dt.month + 1, 2)
      DD   == PadText(dt.day, 2)
      HHmm == PadText(dt.hour, 2) \o <<":">> \o PadText(dt.minute, 2)
  IN CASE format = "HH:mm" -> HHmm
       [] format = "MM-DD" -> MM \o <<"-">> \o DD
       [] format = "YYYY-MM" -> YYYY \o <<"-">> \o MM
       [] format = "YYYY" -> YYYY
       [] format = "YYYY-MM-DD HH:mm" ->
            YYYY \o <<"-">> \o MM \o <<"-">> \o DD \o <<" ">> \o HHmm

AllDigits(text, lo, hi) == \A k \in lo..hi : IsDigit(text[k])

\* /^[0-9]{2}-[0-9]{2}$/.test(text)
MatchesMMDD(text) ==
  Len(text) = 5 /\ AllDigits(text, 1, 2) /\ text[3] = "-" /\ AllDigits(text, 4, 5)

\* /^[0-9]{4}-[0-9]{2}$/.test(text)
MatchesYYYYMM(text) ==
  Len(text) = 7 /\ AllDigits(text, 1, 4) /\ text[5] = "-" /\ AllDigits(text, 6, 7)

\* /^[0-9]{4}$/.test(text)
MatchesYYYY(text) == Len(text) = 4 /\ AllDigits(text, 1, 4)

\* ------------------------------------------------------------------ bars
\* the week indicator a bar carries (row.week): the number of its Monday-based week
WeekOf(timestamp) == (timestamp \div 1440 + 3) \div 7

Bar(timestamp, low, high) ==
  [timestamp |-> timestamp, week |-> WeekOf(timestamp), low |-> low, high |-> high]

\* the bars the data list of the model is drawn from, oldest first
BarPool ==
  << Bar(TimestampOf(2023, 12, 29, 10, 0), 40, 50),
     Bar(TimestampOf(2024, 1, 28, 10, 0), 45, 55),
     Bar(TimestampOf(2024, 1, 28, 11, 30), 50, 52),
     Bar(TimestampOf(2024, 2, 3, 10, 0), 48, 60),
     Bar(TimestampOf(2024, 2, 28, 10, 0), 30, 45),
     Bar(TimestampOf(2025, 2, 3, 9, 5), 60, 70) >>

\* the members of a set of integers, ascending
RECURSIVE Ascending(_)
Ascending(S) ==
  IF S = {} THEN <<>>
  ELSE LET m == CHOOSE x \in S : \A y \in S : x <= y
       IN <<m>> \o Ascending(S \ {m})

\* every data list of at most MaxBars bars, kept in time order
DataLists ==
  { [k \in 1..Cardinality(S) |-> BarPool[Ascending(S)[k]]] :
      S \in { T \in SUBSET (1..Len(BarPool)) : Cardinality(T) <= MaxBars } }

RecognisedIntervals == {"5m", "10m", "15m", "30m", "1h", "2h", "3h", "1d", "1w", "1mo"}

\* window.api or its interval is missing
Absent == "<undefined>"

\* what window.api?.interval can be: a recognised value, another string, the
\* empty string, or nothing
ApiIntervals == RecognisedIntervals \cup {"4h", "", Absent}

\* ------------------------------------------------------------------ state
\* The axis keeps nothing of its own between calls: the state is the store it
\* reads, and `call` holds the call made on the axis and what it returns, until
\* the caller has taken the result (the chart draws on one thread: a call ends
\* before the next one starts).
VARIABLES
  dataList,      \* chart store: the bars, oldest first
  visibleRange,  \* time-scale store: [from, to), data indices
  barSpace,      \* time-scale store: pixels per bar
  apiInterval,   \* window.api?.interval
  styles,        \* chart.getStyles(): the xAxis and crosshair styles
  drawing,       \* getOverlayStore().isDrawing(): an overlay is being drawn
  price,         \* the price a caller of roundPrice has at hand
  call           \* [op |-> "none"] between calls,
                 \*   [op |-> "optimalTicks", candidates, labelWidth, ticks, reads,
                 \*    threw],
                 \*   [op |-> "convertToPixel" or "convertFromPixel", arg, res]

store == <<dataList, visibleRange, barSpace, apiInterval>>
\* what else the calls read
config == <<styles, drawing, price>>
vars == <<store, config, call>>

\* ------------------------------------------------------------------ store
\* timeScaleStore.getBarSpace()
getBarSpace ==
  [bar |-> barSpace, halfBar |-> barSpace \div 2]

\* data[i] exists
HasBar(i) == 0 <= i /\ i < Len(dataList)

\* data[i]
BarAt(i) == dataList[i + 1]

\* timeScaleStore.dataIndexToCoordinate(dataIndex): the centre of the bar, the
\* first visible bar starting at pixel 0 and every bar barSpace wide
dataIndexToCoordinate(dataIndex) ==
  (dataIndex - visibleRange.from) * barSpace + getBarSpace.halfBar

\* timeScaleStore.coordinateToDataIndex(pixel): the bar whose slot holds the
\* pixel, null (Null) when no bar of the data list does
coordinateToDataIndex(pixel) ==
  LET index == visibleRange.from + pixel \div barSpace
  IN IF HasBar(index) THEN index ELSE Null

\* the store reads the bar's timestamp by index: no bar, no timestamp
dataIndexToTimestamp(dataIndex) ==
  IF dataIndex # Null /\ HasBar(dataIndex) THEN BarAt(dataIndex).timestamp ELSE Null

\* the index of the bar whose timestamp matches the given one, or of the last
\* bar before it; the first index when there is none
timestampToDataIndex(timestamp) ==
  LET before == { i \in 0 .. Len(dataList) - 1 : BarAt(i).timestamp <= timestamp }
  IN IF before = {} THEN 0 ELSE CHOOSE i \in before : \A j \in before : j <= i

\* the store reads the bar by index: <<bar>>, or <<>> for its null
getDataByDataIndex(dataIndex) ==
  IF dataIndex # Null /\ HasBar(dataIndex) THEN <<BarAt(dataIndex)>> ELSE <<>>

\* the height of the candle pane, in pixels
PaneHeight == 100

\* the y axis of the candle pane: the higher the price, the smaller the y
yAxisConvertToPixel(value) == PaneHeight - value

isDrawing == drawing

\* ------------------------------------------------------------------ axis
\* convertTimestampFromPixel taking the first visible bar when the pixel has no index
convertTimestampFromPixelClamped(pixel) ==
  LET dataIndex == coordinateToDataIndex(pixel)
  IN dataIndexToTimestamp(IF dataIndex = Null THEN visibleRange.from ELSE dataIndex)

convertTimestampFromPixel(pixel) ==
  LET dataIndex == coordinateToDataIndex(pixel)
  IN dataIndexToTimestamp(dataIndex)

convertTimestampToPixel(timestamp) ==
  LET dataIndex == timestampToDataIndex(timestamp)
  IN dataIndexToCoordinate(dataIndex)

\* convertFromPixel asking the store about the right edge of the slot
convertFromPixelAtEdge(pixel) == coordinateToDataIndex(pixel + getBarSpace.halfBar)

convertFromPixel(pixel) == coordinateToDataIndex(pixel)

\* convertToPixel counting the bars from the right end of the visible range
convertToPixelFromRight(value) == dataIndexToCoordinate(visibleRange.to - value)

convertToPixel(value) == dataIndexToCoordinate(value)

\* calcRange keeping `to` as the last bar
calcRangeInclusive ==
  LET from == visibleRange.from
      to == visibleRange.to
  IN [from |-> from, to |-> to, range |-> to - from,
      realFrom |-> from, realTo |-> to, realRange |-> to - from]

calcRange ==
  LET from == visibleRange.from
      to == visibleRange.to
      af == from
      at == to - 1
      range == to - from
  IN [from |-> af, to |-> at, range |-> range,
      realFrom |-> af, realTo |-> at, realRange |-> range]

\* this.getRange(): the range buildTicks stored from calcRange() just before it
\* asked for the ticks
getRange == calcRange

\* an interval that falls back to '1d' whenever it is not a recognised value
intervalDefaultsUnknown ==
  IF apiInterval \in RecognisedIntervals THEN apiInterval ELSE "1d"

\* (window as any).api?.interval || '1d'
interval == IF apiInterval = Absent \/ apiInterval = "" THEN "1d" ELSE apiInterval

\* what a tick loop has done so far
NoTicks == [ticks |-> <<>>, reads |-> {}, threw |-> FALSE]

\* reading row.timestamp of a missing row throws
Throw(acc, i) == [acc EXCEPT !.reads = @ \cup {i}, !.threw = TRUE]

Push(acc, i, emit, tick) ==
  [acc EXCEPT !.reads = @ \cup {i},
              !.ticks = IF emit THEN Append(@, tick) ELSE @]

\* the intraday loop putting its ticks at the centre of the bar
RECURSIVE IntradayLoopAtCentre(_, _, _, _, _)
IntradayLoopAtCentre(i, realTo, prevMonth, prevDay, acc) ==
  IF i > realTo THEN acc
  ELSE IF ~HasBar(i) THEN Throw(acc, i)
  ELSE LET row == BarAt(i)
           day == getDate(row.timestamp)
           month == getMonth(row.timestamp)
           tick == [text |-> IF month = prevMonth THEN NumberText(day)
                             ELSE shortMonth(row.timestamp) \o <<" ">> \o NumberText(day),
                    coord |-> convertToPixel(i),
                    value |-> i]
       IN IntradayLoopAtCentre(i + 1, realTo, month, day,
                               Push(acc, i, day # prevDay, tick))

\* case '5m' .. '1h'
RECURSIVE IntradayLoop(_, _, _, _, _)
IntradayLoop(i, realTo, prevMonth, prevDay, acc) ==
  IF i > realTo THEN acc
  ELSE IF ~HasBar(i) THEN Throw(acc, i)
  ELSE LET row == BarAt(i)
           day == getDate(row.timestamp)
           month == getMonth(row.timestamp)
           tick == [text |-> IF month = prevMonth THEN NumberText(day)
                             ELSE shortMonth(row.timestamp) \o <<" ">> \o NumberText(day),
                    coord |-> convertToPixel(i) - getBarSpace.halfBar,
                    value |-> i]
       IN IntradayLoop(i + 1, realTo, month, day, Push(acc, i, day # prevDay, tick))

\* case '2h', '3h'
RECURSIVE WeekLoop(_, _, _, _, _)
WeekLoop(i, realTo, prevWeek, prevMonth, acc) ==
  IF i > realTo THEN acc
  ELSE IF ~HasBar(i) THEN Throw(acc, i)
  ELSE LET row == BarAt(i)
           week == row.week
           month == getMonth(row.timestamp)
           tick == [text |-> IF month = prevMonth THEN NumberText(getDate(row.timestamp))
                             ELSE NumberText(getDate(row.timestamp)) \o <<" ">>
                                    \o shortMonth(row.timestamp),
                    coord |-> convertToPixel(i),
                    value |-> i]
       IN WeekLoop(i + 1, realTo, week, month, Push(acc, i, week # prevWeek, tick))

\* the daily loop choosing its text as the other loops do, by the month
RECURSIVE DailyLoopMonthTest(_, _, _, _, _)
DailyLoopMonthTest(i, realTo, prevMonth, prevYear, acc) ==
  IF i > realTo THEN acc
  ELSE IF ~HasBar(i) THEN Throw(acc, i)
  ELSE LET row == BarAt(i)
           month == getMonth(row.timestamp)
           year == getFullYear(row.timestamp)
           tick == [text |-> IF month = prevMonth THEN shortMonth(row.timestamp)
                             ELSE NumberText(getFullYear(row.timestamp)),
                    coord |-> convertToPixel(i),
                    value |-> i]
       IN DailyLoopMonthTest(i + 1, realTo, month, year,
                             Push(acc, i, prevMonth # month, tick))

\* case '1d'
RECURSIVE DailyLoop(_, _, _, _, _)
DailyLoop(i, realTo, prevMonth, prevYear, acc) ==
  IF i > realTo THEN acc
  ELSE IF ~HasBar(i) THEN Throw(acc, i)
  ELSE LET row == BarAt(i)
           month == getMonth(row.timestamp)
           year == getFullYear(row.timestamp)
           tick == [text |-> IF year = prevYear THEN shortMonth(row.timestamp)
                             ELSE NumberText(getFullYear(row.timestamp)),
                    coord |-> convertToPixel(i),
                    value |-> i]
       IN DailyLoop(i + 1, realTo, month, year, Push(acc, i, prevMonth # month, tick))

\* case '1w', '1mo'
RECURSIVE YearLoop(_, _, _, _)
YearLoop(i, realTo, prevYear, acc) ==
  IF i > realTo THEN acc
  ELSE IF ~HasBar(i) THEN Throw(acc, i)
  ELSE LET row == BarAt(i)
           year == getFullYear(row.timestamp)
           tick == [text |-> NumberText(year), coord |-> convertToPixel(i), value |-> i]
       IN YearLoop(i + 1, realTo, year, Push(acc, i, year # prevYear, tick))

\* _optimalTicks whose loops start at the second visible bar
_optimalTicksAfterFirst(tickList) ==
  LET realFrom == getRange.realFrom + 1
      realTo == getRange.realTo
  IN CASE interval \in {"5m", "10m", "15m", "30m", "1h"} ->
            IntradayLoop(realFrom, realTo, Null, Null, NoTicks)
       [] interval \in {"2h", "3h"} -> WeekLoop(realFrom, realTo, Null, Null, NoTicks)
       [] interval = "1d" -> DailyLoop(realFrom, realTo, Null, Null, NoTicks)
       [] interval \in {"1w", "1mo"} -> YearLoop(realFrom, realTo, Null, NoTicks)
       [] OTHER -> NoTicks

\* _optimalTicks(ticks): the ticks of the visible bars, grouped as the interval asks
_optimalTicks(tickList) ==
  LET realFrom == getRange.realFrom
      realTo == getRange.realTo
  IN CASE interval \in {"5m", "10m", "15m", "30m", "1h"} ->
            IntradayLoop(realFrom, realTo, Null, Null, NoTicks)
       [] interval \in {"2h", "3h"} -> WeekLoop(realFrom, realTo, Null, Null, NoTicks)
       [] interval = "1d" -> DailyLoop(realFrom, realTo, Null, Null, NoTicks)
       [] interval \in {"1w", "1mo"} -> YearLoop(realFrom, realTo, Null, NoTicks)
       [] OTHER -> NoTicks

\* _optimalTickLabel(formatDate, dateTimeFormat, timestamp, comparedTimestamp);
\* <<>> stands for its null (no text of the formatter is empty)
_optimalTickLabel(timestamp, comparedTimestamp) ==
  LET year == formatDate(timestamp, "YYYY")
      month == formatDate(timestamp, "YYYY-MM")
      day == formatDate(timestamp, "MM-DD")
  IN IF year # formatDate(comparedTimestamp, "YYYY") THEN year
     ELSE IF month # formatDate(comparedTimestamp, "YYYY-MM") THEN month
     ELSE IF day # formatDate(comparedTimestamp, "MM-DD") THEN day
     ELSE <<>>

\* a ?? b
OrElse(a, b) == IF a = <<>> THEN b ELSE a

\* Math.abs
Abs(x) == IF x < 0 THEN 0 - x ELSE x

\* tickCountDif of the statements after the return: 1, or
\* Math.ceil(defaultLabelWidth / xDif) when the first two ticks are closer than
\* the reference label (a gap of 0 gives Infinity: only index 0 is kept)
TickCountDif(tickList, defaultLabelWidth) ==
  IF Len(tickList) > 1
  THEN LET xDif == Abs(convertToPixel(tickList[2].value) - convertToPixel(tickList[1].value))
       IN IF xDif < defaultLabelWidth
          THEN (IF xDif = 0 THEN Len(tickList)
                ELSE (defaultLabelWidth + xDif - 1) \div xDif)
          ELSE 1
  ELSE 1

\* the for loop of the statements after the return; k is i + 1
RECURSIVE StrideLoop(_, _, _, _)
StrideLoop(tickList, k, tickCountDif, acc) ==
  IF k > Len(tickList) THEN acc
  ELSE LET pos == tickList[k].value
       IN IF ~HasBar(pos) THEN Throw(acc, pos)
          ELSE LET timestamp == BarAt(pos).timestamp
                   text == IF k = 1 THEN formatDate(timestamp, "HH:mm")
                           ELSE OrElse(_optimalTickLabel(timestamp,
                                         BarAt(tickList[k - tickCountDif].value).timestamp),
                                       formatDate(timestamp, "HH:mm"))
                   tick == [text |-> text, coord |-> convertToPixel(pos),
                            value |-> timestamp]
               IN StrideLoop(tickList, k + tickCountDif, tickCountDif,
                             Push(acc, pos, TRUE, tick))

\* the ticks that loop pushes, before the first one is relabelled
StridedTicks(tickList, defaultLabelWidth) ==
  StrideLoop(tickList, 1, TickCountDif(tickList, defaultLabelWidth), NoTicks)

\* the first-tick pass of the statements after the return
RelabelFirst(optimalTicks) ==
  IF Len(optimalTicks) = 1
  THEN [optimalTicks EXCEPT ![1].text =
          formatDate(optimalTicks[1].value, "YYYY-MM-DD HH:mm")]
  ELSE LET firstTimestamp == optimalTicks[1].value
           secondTimestamp == optimalTicks[2].value
       IN IF Len(optimalTicks) >= 3
          THEN LET thirdText == optimalTicks[3].text
               IN IF MatchesMMDD(thirdText)
                  THEN [optimalTicks EXCEPT ![1].text = formatDate(firstTimestamp, "MM-DD")]
                  ELSE IF MatchesYYYYMM(thirdText)
                  THEN [optimalTicks EXCEPT ![1].text = formatDate(firstTimestamp, "YYYY-MM")]
                  ELSE IF MatchesYYYY(thirdText)
                  THEN [optimalTicks EXCEPT ![1].text = formatDate(firstTimestamp, "YYYY")]
                  ELSE optimalTicks
          ELSE [optimalTicks EXCEPT ![1].text =
                  OrElse(_optimalTickLabel(firstTimestamp, secondTimestamp), @)]

\* optimalTicks with its leading `return this._optimalTicks(ticks)` taken out:
\* the statements that follow it, which the return keeps from running
StatementsAfterReturn(tickList, defaultLabelWidth) ==
  IF Len(tickList) > 0
  THEN LET pushed == StridedTicks(tickList, defaultLabelWidth)
       IN IF pushed.threw THEN pushed
          ELSE [pushed EXCEPT !.ticks = RelabelFirst(@)]
  ELSE NoTicks

\* optimalTicks(ticks); defaultLabelWidth is what calcTextWidth would give
optimalTicks(tickList, defaultLabelWidth) == _optimalTicks(tickList)

\* ------------------------------------------------------------------ actions
\* the candidate ticks the axis base class hands over: every step-th bar of
\* the visible range from its first bar on, for each step
CandidateLists ==
  LET from == visibleRange.from
      n == visibleRange.to - visibleRange.from
  IN IF n <= 0 THEN {<<>>}
     ELSE { [k \in 1..((n + step - 1) \div step) |-> [value |-> from + (k - 1) * step]] :
              step \in 1..n }

\* xAxis.size 'auto'; a size in pixels is >= 0
Auto == -1

\* Math.max
Max(a, b) == IF a >= b THEN a ELSE b

\* getAutoSize counting the border of the crosshair text once
getAutoSizeOneBorder ==
  LET xAxisStyles == styles.xAxis
      text == styles.crosshair.vertical.text
      xAxisHeight ==
        IF xAxisStyles.show
        THEN (IF xAxisStyles.axisLine.show THEN xAxisStyles.axisLine.size ELSE 0)
             + (IF xAxisStyles.tickLine.show THEN xAxisStyles.tickLine.length ELSE 0)
             + (IF xAxisStyles.tickText.show
                THEN xAxisStyles.tickText.marginStart + xAxisStyles.tickText.marginEnd
                       + xAxisStyles.tickText.size
                ELSE 0)
        ELSE 0
      crosshairVerticalTextHeight ==
        IF styles.crosshair.show /\ styles.crosshair.vertical.show /\ text.show
        THEN text.paddingTop + text.paddingBottom + text.borderSize + text.size
        ELSE 0
  IN IF xAxisStyles.size # Auto THEN xAxisStyles.size
     ELSE Max(xAxisHeight, crosshairVerticalTextHeight)

getAutoSize ==
  LET xAxisStyles == styles.xAxis
      height == xAxisStyles.size
      crosshairStyles == styles.crosshair
      xAxisHeight ==
        IF xAxisStyles.show
        THEN (IF xAxisStyles.axisLine.show THEN xAxisStyles.axisLine.size ELSE 0)
             + (IF xAxisStyles.tickLine.show THEN xAxisStyles.tickLine.length ELSE 0)
             + (IF xAxisStyles.tickText.show
                THEN xAxisStyles.tickText.marginStart + xAxisStyles.tickText.marginEnd
                       + xAxisStyles.tickText.size
                ELSE 0)
        ELSE 0
      crosshairVerticalTextHeight ==
        IF crosshairStyles.show /\ crosshairStyles.vertical.show
             /\ crosshairStyles.vertical.text.show
        THEN crosshairStyles.vertical.text.paddingTop
               + crosshairStyles.vertical.text.paddingBottom
               + crosshairStyles.vertical.text.borderSize * 2
               + crosshairStyles.vertical.text.size
        ELSE 0
  IN IF height # Auto THEN height
     ELSE Max(xAxisHeight, crosshairVerticalTextHeight)

\* a style configuration: the xAxis size, the two text sizes, and what is shown
\* (the axis, its line, tick lines and tick texts; the crosshair, its vertical
\* line and the text of that line)
Styles(size, tickTextSize, textSize, show) ==
  [xAxis |-> [size |-> size, show |-> show[1],
              axisLine |-> [show |-> show[2], size |-> 1],
              tickLine |-> [show |-> show[3], length |-> 3],
              tickText |-> [show |-> show[4], marginStart |-> 4, marginEnd |-> 4,
                            size |-> tickTextSize]],
   crosshair |-> [show |-> show[5],
                  vertical |-> [show |-> show[6],
                                text |-> [show |-> show[7], paddingTop |-> 2,
                                          paddingBottom |-> 2, borderSize |-> 1,
                                          size |-> textSize]]]]

\* the style configurations of the model: xAxis.size is 'auto' or 5 pixels
StyleSets ==
  { Styles(size, tickTextSize, textSize, show) :
      size \in {Auto, 5}, show \in [1..7 -> BOOLEAN],
      tickTextSize \in 1..MaxTextSize, textSize \in 1..MaxTextSize }

\* everything shown, the xAxis sized automatically
DefaultStyles == Styles(Auto, 1, 1, [k \in 1..7 |-> TRUE])

\* ----------------------------------------------------------------- utils
getFraction(p) ==
  IF p < 200 THEN 1 ELSE IF p < 500 THEN 2 ELSE IF p < 2000 THEN 5
  ELSE IF p < 5000 THEN 10 ELSE 25

\* Math.round(a / b) of two integers, b > 0: halves go up
RoundDiv(a, b) == (2 * a + b) \div (2 * b)

\* roundPrice that does not scale the rounded quotient back
roundPriceUnscaled(p) ==
  IF p < 200 THEN RoundDiv(p, 1)
  ELSE RoundDiv(p, getFraction(p))

roundPrice(p) ==
  IF p < 200 THEN RoundDiv(p, 1)
  ELSE LET fraction == getFraction(p)
       IN RoundDiv(p, fraction) * fraction

\* ------------------------------------------------------------ candle view
\* getActionStore().execute(type, data) appended to the actions executed so far
Execute(executed, type, data) == Append(executed, [type |-> type, data |-> data])

\* the click handler that does not ask whether an overlay is being drawn
mouseClickEventAlways(event) ==
  LET dataIndex == coordinateToDataIndex(event.x)
      data == getDataByDataIndex(dataIndex)
  IN IF dataIndex # Null /\ data # <<>>
     THEN LET highY == yAxisConvertToPixel(data[1].high)
              lowY == yAxisConvertToPixel(data[1].low)
          IN IF event.y > (highY - 20) /\ event.y < (lowY + 20)
             THEN Execute(<<>>, "OnCandleBarClick",
                          [timestamp |-> dataIndexToTimestamp(dataIndex)])
             ELSE <<>>
     ELSE <<>>

\* the 'mouseClickEvent' handler of CandleBarView: the actions it executes
mouseClickEvent(event) ==
  IF isDrawing THEN <<>>
  ELSE LET dataIndex == coordinateToDataIndex(event.x)
       IN IF dataIndex # Null
          THEN LET data == getDataByDataIndex(dataIndex)
               IN IF data # <<>>
                  THEN LET highY == yAxisConvertToPixel(data[1].high)
                           lowY == yAxisConvertToPixel(data[1].low)
                       IN IF event.y > (highY - 20) /\ event.y < (lowY + 20)
                          THEN LET timestamp == dataIndexToTimestamp(dataIndex)
                               IN Execute(<<>>, "OnCandleBarClick",
                                          [timestamp |-> timestamp])
                          ELSE <<>>
                  ELSE <<>>
          ELSE <<>>

\* the store after the data is loaded and the chart is panned and zoomed
StoreInit ==
  /\ dataList \in DataLists
  /\ barSpace \in { 2 * k : k \in 1..MaxBarSpace }
  /\ apiInterval \in ApiIntervals
  /\ visibleRange \in { [from |-> f, to |-> t] :
                          f \in 0..Len(dataList), t \in 0..Len(dataList) }

\* the visible range keeps 0 <= from <= to <= the number of bars
Init ==
  /\ StoreInit
  /\ visibleRange.from <= visibleRange.to
  /\ styles = DefaultStyles
  /\ drawing = FALSE
  /\ price = 0
  /\ call = [op |-> "none"]

Idle == call.op = "none"

\* one redraw: buildTicks stores calcRange() and asks optimalTicks for the
\* ticks; a call that throws returns none
BuildTicks ==
  \E tickList \in CandidateLists, defaultLabelWidth \in 1..MaxLabelWidth :
    LET r == optimalTicks(tickList, defaultLabelWidth)
    IN /\ Idle
       /\ call' = [op |-> "optimalTicks", candidates |-> tickList,
                   labelWidth |-> defaultLabelWidth,
                   ticks |-> IF r.threw THEN <<>> ELSE r.ticks,
                   reads |-> r.reads, threw |-> r.threw]
       /\ UNCHANGED <<store, config>>

\* the pixels a conversion is asked about: the centre of every bar, of the
\* slot before the first bar and of the slot after the last one
Pixels == { dataIndexToCoordinate(i) : i \in (0 - 1) .. Len(dataList) }

ConvertToPixel ==
  \E value \in 0..Len(dataList) :
    /\ Idle
    /\ call' = [op |-> "convertToPixel", arg |-> value, res |-> convertToPixel(value)]
    /\ UNCHANGED <<store, config>>

ConvertFromPixel ==
  \E pixel \in Pixels :
    /\ Idle
    /\ call' = [op |-> "convertFromPixel", arg |-> pixel, res |-> convertFromPixel(pixel),
                threw |-> FALSE]
    /\ UNCHANGED <<store, config>>

ConvertTimestampFromPixel ==
  \E pixel \in Pixels :
    /\ Idle
    /\ call' = [op |-> "convertTimestampFromPixel", arg |-> pixel,
                res |-> convertTimestampFromPixel(pixel), threw |-> FALSE]
    /\ UNCHANGED <<store, config>>

\* the timestamps a conversion is asked about: those of the bars of the pool
Timestamps == { BarPool[k].timestamp : k \in 1..Len(BarPool) }

ConvertTimestampToPixel ==
  \E timestamp \in Timestamps :
    /\ Idle
    /\ call' = [op |-> "convertTimestampToPixel", arg |-> timestamp,
                res |-> convertTimestampToPixel(timestamp)]
    /\ UNCHANGED <<store, config>>

\* the heights a click at x is made at: around the two ends of the reach of
\* the bar under x, or the top of the pane when there is no bar
ClickHeights(x) ==
  LET data == getDataByDataIndex(coordinateToDataIndex(x))
  IN IF data = <<>> THEN {0}
     ELSE LET highY == yAxisConvertToPixel(data[1].high)
              lowY == yAxisConvertToPixel(data[1].low)
          IN { highY - 21, highY - 20, highY - 19, lowY + 19, lowY + 20, lowY + 21 }

MouseClick ==
  \E x \in Pixels :
    \E y \in ClickHeights(x) :
      /\ Idle
      /\ call' = [op |-> "mouseClickEvent", event |-> [x |-> x, y |-> y],
                  executed |-> mouseClickEvent([x |-> x, y |-> y])]
      /\ UNCHANGED <<store, config>>

RoundPrice ==
  /\ Idle
  /\ call' = [op |-> "roundPrice", arg |-> price, res |-> roundPrice(price)]
  /\ UNCHANGED <<store, config>>

\* calcRange writing the last visible bar back into the store's range object
CalcRangeInPlace ==
  /\ Idle
  /\ visibleRange' = [visibleRange EXCEPT !.to = @ - 1]
  /\ call' = [op |-> "calcRange",
              res |-> [from |-> visibleRange.from, to |-> visibleRange.to - 1,
                       range |-> visibleRange.to - visibleRange.from,
                       realFrom |-> visibleRange.from, realTo |-> visibleRange.to - 1,
                       realRange |-> visibleRange.to - visibleRange.from]]
  /\ UNCHANGED <<dataList, barSpace, apiInterval, config>>

CalcRange ==
  /\ Idle
  /\ call' = [op |-> "calcRange", res |-> calcRange]
  /\ UNCHANGED <<store, config>>

GetAutoSize ==
  /\ Idle
  /\ call' = [op |-> "getAutoSize", res |-> getAutoSize]
  /\ UNCHANGED <<store, config>>

\* the caller takes the result
Return ==
  /\ ~Idle
  /\ call' = [op |-> "none"]
  /\ UNCHANGED <<store, config>>

Next ==
  \/ CalcRange
  \/ BuildTicks
  \/ ConvertToPixel
  \/ ConvertFromPixel
  \/ ConvertTimestampToPixel
  \/ ConvertTimestampFromPixel
  \/ GetAutoSize
  \/ MouseClick
  \/ RoundPrice
  \/ Return

Spec == Init /\ [][Next]_vars

\* the same axis over a store whose visible range is degenerate: to <= from
InitDegenerate ==
  /\ StoreInit
  /\ visibleRange.to <= visibleRange.from
  /\ styles = DefaultStyles
  /\ drawing = FALSE
  /\ price = 0
  /\ call = [op |-> "none"]

SpecDegenerate == InitDegenerate /\ [][Next]_vars

\* the chart with and without an overlay being drawn
InitClick ==
  /\ StoreInit
  /\ visibleRange.from <= visibleRange.to
  /\ apiInterval = Absent
  /\ styles = DefaultStyles
  /\ drawing \in BOOLEAN
  /\ price = 0
  /\ call = [op |-> "none"]

SpecClick == InitClick /\ [][Next]_vars

\* a chart without bars
EmptyStore ==
  /\ dataList = <<>>
  /\ visibleRange = [from |-> 0, to |-> 0]
  /\ barSpace = 2
  /\ apiInterval = Absent

\* the same axis under every style configuration of the model
InitStyles ==
  /\ EmptyStore
  /\ styles \in StyleSets
  /\ drawing = FALSE
  /\ price = 0
  /\ call = [op |-> "none"]

SpecStyles == InitStyles /\ [][Next]_vars

\* every price up to the largest
InitPrice ==
  /\ EmptyStore
  /\ styles = DefaultStyles
  /\ drawing = FALSE
  /\ price \in 0..MaxPrice
  /\ call = [op |-> "none"]

SpecPrice == InitPrice /\ [][Next]_vars

\* ------------------------------------------------------------------ claims
VisibleBars == visibleRange.from .. visibleRange.to - 1

\* optimalTicks was the last call and returned
Built == call.op = "optimalTicks" /\ ~call.threw

\* C1  Round trip: in every pan/zoom state, converting a data index of the
\* visible range to its pixel and that pixel back gives the index again; a
\* convertFromPixel call on the pixel of a visible bar returns that bar.
RoundTrip ==
  /\ \A i \in VisibleBars : convertFromPixel(convertToPixel(i)) = i
  /\ call.op = "convertFromPixel" =>
       \A i \in VisibleBars : call.arg = dataIndexToCoordinate(i) => call.res = i

\* a convertFromPixel call on the pixel of a visible bar that is not the first
\* one has returned that bar
RoundTripWitness ==
  /\ call.op = "convertFromPixel"
  /\ \E i \in VisibleBars :
       i > visibleRange.from /\ call.arg = dataIndexToCoordinate(i) /\ call.res = i

\* C2  Monotonicity: in every pan/zoom state the pixel grows strictly with the
\* data index over the visible range, and the coords of the ticks returned for
\* one interval never decrease along the sequence.
Monotonicity ==
  /\ \A i, j \in VisibleBars : i < j => convertToPixel(i) < convertToPixel(j)
  /\ Built => \A k \in 1..(Len(call.ticks) - 1) :
                call.ticks[k].coord <= call.ticks[k + 1].coord

\* three ticks were returned, at growing coords
MonotonicityWitness ==
  /\ Built
  /\ Len(call.ticks) = 3
  /\ call.ticks[1].coord < call.ticks[2].coord
  /\ call.ticks[2].coord < call.ticks[3].coord

\* the bars a tick sits at: its value is the bar's index (_optimalTicks) or the
\* bar's timestamp (the statements after the return)
TickBars(tick) ==
  { i \in 0..(Len(dataList) - 1) : tick.value = i \/ tick.value = BarAt(i).timestamp }

IntradayIntervals == {"5m", "10m", "15m", "30m", "1h"}

\* the label of a bar that opens the first group of its class: no group
\* precedes it
ContextLabel(timestamp) ==
  LET dt == DateOf(timestamp)
  IN CASE interval \in IntradayIntervals ->
            MonthNames[dt.month + 1] \o <<" ">> \o NumberText(dt.day)
       [] interval \in {"2h", "3h"} ->
            NumberText(dt.day) \o <<" ">> \o MonthNames[dt.month + 1]
       [] OTHER -> NumberText(dt.year)

\* C3 as stated  Single-tick relabeling: when exactly one tick is returned, at
\* a bar with timestamp T, its text is the 'YYYY-MM-DD HH:mm' formatting of T.
SingleTickRelabeled ==
  Built /\ Len(call.ticks) = 1 =>
    \A i \in TickBars(call.ticks[1]) :
      call.ticks[1].text = formatDate(BarAt(i).timestamp, "YYYY-MM-DD HH:mm")

\* C3 amended  When exactly one tick is returned it sits at the first visible
\* bar and its text is the label the interval's loop gives a bar that opens the
\* first group (month and day up to 1h, day and month for 2h/3h, the year for
\* daily, weekly and monthly): nothing relabels it.
SingleTickKeepsGroupLabel ==
  Built /\ Len(call.ticks) = 1 =>
    /\ call.ticks[1].value = visibleRange.from
    /\ HasBar(visibleRange.from)
    /\ call.ticks[1].text = ContextLabel(BarAt(visibleRange.from).timestamp)

\* one tick was returned for an hourly chart, and its text is not the
\* 'YYYY-MM-DD HH:mm' text of its bar
SingleTickWitness ==
  /\ Built
  /\ Len(call.ticks) = 1
  /\ apiInterval = "1h"
  /\ Len(call.candidates) = 1
  /\ call.ticks[1].text
       # formatDate(BarAt(visibleRange.from).timestamp, "YYYY-MM-DD HH:mm")

\* the raw ticks of the candidates: what the loop before the first-tick pass
\* computes for them
RawTicks == StridedTicks(call.candidates, call.labelWidth).ticks

\* C4 as stated  Label collapsing: when at least three ticks are returned and
\* the third tick's raw text matches MM-DD, the first returned tick's text is
\* the MM-DD label of its bar; likewise YYYY-MM and YYYY.
LabelCollapsing ==
  Built /\ Len(call.ticks) >= 3 /\ Len(RawTicks) >= 3 =>
    \A i \in TickBars(call.ticks[1]) :
      LET first == call.ticks[1].text
          thirdText == RawTicks[3].text
          timestamp == BarAt(i).timestamp
      IN /\ MatchesMMDD(thirdText) => first = formatDate(timestamp, "MM-DD")
         /\ MatchesYYYYMM(thirdText) => first = formatDate(timestamp, "YYYY-MM")
         /\ MatchesYYYY(thirdText) => first = formatDate(timestamp, "YYYY")

\* C4 amended  When at least three ticks are returned, the first tick keeps the
\* text its interval's loop computed for the first visible bar, whatever the
\* third tick's text is; no returned third text matches MM-DD or YYYY-MM, and
\* when it matches YYYY the first tick's text is the year of its bar, which is
\* what the daily and weekly/monthly loops computed for it.
FirstTickNotCollapsed ==
  Built /\ Len(call.ticks) >= 3 =>
    LET first == call.ticks[1]
        thirdText == call.ticks[3].text
    IN /\ first.value = visibleRange.from
       /\ first.text = ContextLabel(BarAt(visibleRange.from).timestamp)
       /\ ~MatchesMMDD(thirdText)
       /\ ~MatchesYYYYMM(thirdText)
       /\ MatchesYYYY(thirdText) =>
            first.text = formatDate(BarAt(visibleRange.from).timestamp, "YYYY")

\* three ticks were returned for an hourly chart whose third candidate has an
\* MM-DD raw text, and the first text is not the MM-DD label of the first bar
FirstTickWitness ==
  /\ Built
  /\ Len(call.ticks) >= 3
  /\ Len(RawTicks) >= 3
  /\ apiInterval = "1h"
  /\ MatchesMMDD(RawTicks[3].text)
  /\ call.ticks[1].text # formatDate(BarAt(visibleRange.from).timestamp, "MM-DD")

\* what the loop of the interval compares between a bar and the bar before it
GroupKey(i) ==
  LET row == BarAt(i)
  IN CASE interval \in IntradayIntervals -> DateOf(row.timestamp).day
       [] interval \in {"2h", "3h"} -> row.week
       [] interval = "1d" -> DateOf(row.timestamp).month
       [] OTHER -> DateOf(row.timestamp).year

\* bar i of the visible range opens a group of its (recognised) interval
StartsGroup(i) ==
  /\ interval \in RecognisedIntervals
  /\ i = visibleRange.from \/ GroupKey(i) # GroupKey(i - 1)

\* the values of the returned ticks, in order
TickValues == [k \in 1..Len(call.ticks) |-> call.ticks[k].value]

\* N of the claim: ceil(referenceWidth / gap) when the first two candidates are
\* closer than the reference width, 1 otherwise
StrideOf(tickList, width) ==
  IF Len(tickList) < 2 THEN 1
  ELSE LET gap == Abs(dataIndexToCoordinate(tickList[2].value)
                       - dataIndexToCoordinate(tickList[1].value))
       IN IF gap < width THEN (width + gap - 1) \div gap ELSE 1

\* the bars of every n-th candidate, from the first one on
EveryNth(tickList, n) ==
  [k \in 1..((Len(tickList) + n - 1) \div n) |-> tickList[1 + (k - 1) * n].value]

\* C5 as stated  Density reduction: the returned sequence keeps every N-th
\* candidate from index 0 on, N = ceil(referenceWidth / gap) when the first two
\* candidates are closer than the reference width, and every candidate otherwise.
DensityReduction ==
  Built /\ Len(call.candidates) >= 1 =>
    LET kept == EveryNth(call.candidates, StrideOf(call.candidates, call.labelWidth))
    IN /\ Len(call.ticks) = Len(kept)
       /\ \A k \in 1..Len(kept) : kept[k] \in TickBars(call.ticks[k])

\* C5 amended  No density reduction: whatever the candidates and the reference
\* width, the returned sequence has one tick at every visible bar that opens a
\* group of the interval (the first visible bar, and each bar whose day of the
\* month, week indicator, month of the year or year, by class, differs from the
\* bar before), also when the first two are closer than the reference width.
NoDensityReduction ==
  Built => TickValues = Ascending({ i \in VisibleBars : StartsGroup(i) })

\* three ticks were returned although the first two candidates, and the first
\* two ticks, are closer than the reference width, which asks for every 2nd
NoDensityReductionWitness ==
  /\ Built
  /\ Len(call.candidates) = 3
  /\ StrideOf(call.candidates, call.labelWidth) = 2
  /\ Len(call.ticks) = 3
  /\ call.ticks[2].coord - call.ticks[1].coord < call.labelWidth

\* the visible bars lie in two consecutive months of one year, both present
TwoMonthsOfOneYear ==
  /\ VisibleBars # {}
  /\ \A i, j \in VisibleBars :
       DateOf(BarAt(i).timestamp).year = DateOf(BarAt(j).timestamp).year
  /\ \E m \in 0..10 :
       /\ \A i \in VisibleBars : DateOf(BarAt(i).timestamp).month \in {m, m + 1}
       /\ \E i, j \in VisibleBars :
            /\ DateOf(BarAt(i).timestamp).month = m
            /\ DateOf(BarAt(j).timestamp).month = m + 1

\* C6  Daily grouping: for the daily interval a tick is returned exactly at
\* the first visible bar and at each visible bar whose month differs from the
\* month of the bar before; its text is the abbreviated month when the bar
\* before is visible and of the same year, the four-digit year otherwise.  When
\* the visible bars span two consecutive months of one year there are exactly
\* two ticks: the year at the first visible bar, the month name at the first
\* bar of the second month.
DailyGrouping ==
  Built /\ interval = "1d" =>
    /\ TickValues =
         Ascending({ i \in VisibleBars :
                       \/ i = visibleRange.from
                       \/ DateOf(BarAt(i).timestamp).month
                            # DateOf(BarAt(i - 1).timestamp).month })
    /\ \A k \in 1..Len(call.ticks) :
         LET i == call.ticks[k].value
             dt == DateOf(BarAt(i).timestamp)
         IN call.ticks[k].text =
              IF i > visibleRange.from /\ dt.year = DateOf(BarAt(i - 1).timestamp).year
              THEN MonthNames[dt.month + 1]
              ELSE PadText(dt.year, 4)
    /\ TwoMonthsOfOneYear =>
         LET second == CHOOSE i \in VisibleBars :
                         /\ DateOf(BarAt(i).timestamp).month
                              # DateOf(BarAt(visibleRange.from).timestamp).month
                         /\ \A j \in VisibleBars :
                              j < i => DateOf(BarAt(j).timestamp).month
                                         # DateOf(BarAt(i).timestamp).month
         IN /\ Len(call.ticks) = 2
            /\ call.ticks[1].value = visibleRange.from
            /\ call.ticks[1].text
                 = PadText(DateOf(BarAt(visibleRange.from).timestamp).year, 4)
            /\ call.ticks[2].value = second
            /\ call.ticks[2].text
                 = MonthNames[DateOf(BarAt(second).timestamp).month + 1]

\* daily ticks were returned for three visible bars of January and February
\* 2024: "2024" at the first bar, "Feb" at the third
DailyGroupingWitness ==
  /\ Built
  /\ apiInterval = "1d"
  /\ TwoMonthsOfOneYear
  /\ visibleRange.to - visibleRange.from = 3
  /\ Len(call.ticks) = 2
  /\ call.ticks[1].text = <<"2", "0", "2", "4">>
  /\ call.ticks[2].value = visibleRange.from + 2
  /\ call.ticks[2].text = <<"F", "e", "b">>

\* the calendar date of bar i
CalendarDate(i) ==
  LET dt == DateOf(BarAt(i).timestamp) IN <<dt.year, dt.month, dt.day>>

\* C7 as stated  Calendar-day grouping: for '5m' .. '1h' a tick is returned at
\* the first visible bar and at every visible bar whose calendar date (year,
\* month, day) differs from that of the bar before, and at no other bar; its
\* text is the day number when the bar is in the month of the bar before, the
\* abbreviated month and the day number otherwise.
CalendarDayGrouping ==
  Built /\ interval \in IntradayIntervals =>
    /\ TickValues =
         Ascending({ i \in VisibleBars :
                       i = visibleRange.from \/ CalendarDate(i) # CalendarDate(i - 1) })
    /\ \A k \in 1..Len(call.ticks) :
         LET i == call.ticks[k].value
             dt == DateOf(BarAt(i).timestamp)
         IN call.ticks[k].text =
              IF i > visibleRange.from /\ dt.month = DateOf(BarAt(i - 1).timestamp).month
              THEN NumberText(dt.day)
              ELSE MonthNames[dt.month + 1] \o <<" ">> \o NumberText(dt.day)

\* C8  Tick coordinate: every tick of '5m' .. '1h' is half a bar to the left
\* of the pixel of its bar, every tick of the other recognised intervals is at
\* the pixel of its bar.
TickCoordOffset ==
  Built =>
    \A k \in 1..Len(call.ticks) :
      call.ticks[k].coord =
        dataIndexToCoordinate(call.ticks[k].value)
          - (IF interval \in IntradayIntervals THEN barSpace \div 2 ELSE 0)

\* an hourly tick was returned for the second visible bar, half a bar (one
\* pixel at least) to the left of the bar's pixel
TickCoordOffsetWitness ==
  /\ Built
  /\ apiInterval = "1h"
  /\ barSpace \div 2 >= 1
  /\ \E k \in 1..Len(call.ticks) :
       /\ call.ticks[k].value = visibleRange.from + 1
       /\ call.ticks[k].coord
            = dataIndexToCoordinate(visibleRange.from + 1) - barSpace \div 2

\* C9  Empty input: with no bars, optimalTicks returns no ticks for every
\* interval value, reads no bar and does not throw.
EmptyInput ==
  call.op = "optimalTicks" /\ Len(dataList) = 0 =>
    /\ ~call.threw
    /\ call.ticks = <<>>
    /\ call.reads = {}

\* optimalTicks has returned for an hourly chart without bars
EmptyInputWitness ==
  /\ Built
  /\ Len(dataList) = 0
  /\ visibleRange = [from |-> 0, to |-> 0]
  /\ apiInterval = "1h"

\* C10  Degenerate range: when to <= from (realTo < realFrom), optimalTicks
\* returns no ticks, reads no bar of the data list and does not throw.
DegenerateRange ==
  call.op = "optimalTicks" /\ visibleRange.to <= visibleRange.from =>
    /\ ~call.threw
    /\ call.ticks = <<>>
    /\ call.reads = {}

\* optimalTicks has returned for a daily chart with bars whose range has
\* from > to
DegenerateRangeWitness ==
  /\ Built
  /\ Len(dataList) > 0
  /\ visibleRange.from > visibleRange.to
  /\ apiInterval = "1d"

\* the ticks the daily loop gives the visible range
DailyTickValues ==
  Ascending({ i \in VisibleBars :
                \/ i = visibleRange.from
                \/ DateOf(BarAt(i).timestamp).month
                     # DateOf(BarAt(i - 1).timestamp).month })

\* C11 as stated  Unrecognised interval: for every value of the configured
\* interval that is not a recognised one, an absent or empty one included, no
\* ticks are returned.
UnrecognisedIntervalNoTicks ==
  Built /\ apiInterval \notin RecognisedIntervals => call.ticks = <<>>

\* C11 amended  A configured interval that is a non-empty string and not a
\* recognised value gives no ticks, with no fall back to another grouping; an
\* absent or empty interval is taken as '1d' and gives the daily ticks.
UnrecognisedIntervalOrDefault ==
  Built =>
    /\ apiInterval \notin RecognisedIntervals \cup {"", Absent} => call.ticks = <<>>
    /\ apiInterval \in {"", Absent} => TickValues = DailyTickValues

\* no tick was returned for three visible bars of an interval '4h'
UnrecognisedIntervalWitness ==
  /\ Built
  /\ apiInterval = "4h"
  /\ visibleRange.to - visibleRange.from = 3
  /\ call.ticks = <<>>

\* (a) the height of the axis band: the parts that are shown, of a shown axis
BandHeight ==
  LET x == styles.xAxis
  IN IF ~x.show THEN 0
     ELSE (IF x.axisLine.show THEN x.axisLine.size ELSE 0)
          + (IF x.tickLine.show THEN x.tickLine.length ELSE 0)
          + (IF x.tickText.show
             THEN x.tickText.marginStart + x.tickText.marginEnd + x.tickText.size
             ELSE 0)

\* (b) the height of the crosshair's vertical readout label, when it is shown
CrosshairLabelHeight ==
  LET t == styles.crosshair.vertical.text
  IN IF styles.crosshair.show /\ styles.crosshair.vertical.show /\ t.show
     THEN t.paddingTop + t.paddingBottom + 2 * t.borderSize + t.size
     ELSE 0

\* C12 as stated  Axis sizing: for every style configuration getAutoSize
\* returns the larger of the axis band height and the crosshair label height,
\* so never less than the crosshair label height.
AutoSizeIsLarger ==
  call.op = "getAutoSize" =>
    /\ call.res = Max(BandHeight, CrosshairLabelHeight)
    /\ call.res >= CrosshairLabelHeight

\* C12 amended  When xAxis.size is 'auto', getAutoSize returns the larger of
\* the axis band height (0 when the axis is hidden) and the crosshair label
\* height, so never less than the crosshair label height; when xAxis.size is a
\* number it returns that number, whatever the two heights are.
AutoSizeIsLargerWhenAuto ==
  call.op = "getAutoSize" =>
    IF styles.xAxis.size = Auto
    THEN /\ call.res = Max(BandHeight, CrosshairLabelHeight)
         /\ call.res >= CrosshairLabelHeight
    ELSE call.res = styles.xAxis.size

\* getAutoSize has returned the crosshair label height, larger than the height
\* of the band of an automatically sized axis of which only the line is shown
AutoSizeWitness ==
  /\ call.op = "getAutoSize"
  /\ styles.xAxis.size = Auto
  /\ BandHeight = 1
  /\ CrosshairLabelHeight > BandHeight
  /\ call.res = CrosshairLabelHeight

\* the pixel lies in the slot of a bar of the data list
Addressable(pixel) ==
  \E i \in 0 .. Len(dataList) - 1 :
    /\ dataIndexToCoordinate(i) - getBarSpace.halfBar <= pixel
    /\ pixel < dataIndexToCoordinate(i) - getBarSpace.halfBar + barSpace

ReadOnlyStore == [][store' = store]_vars

\* calcRange has returned the last visible bar of a range of two bars, one less
\* than the store's `to`, which is still with the store
ReadOnlyStoreWitness ==
  /\ call.op = "calcRange"
  /\ visibleRange.to - visibleRange.from = 2
  /\ call.res.to = visibleRange.to - 1
  /\ call.res.to = visibleRange.from + 1

\* C15  Tick sequence shape: for every recognised interval class and every
\* non-empty visible range [from, to), the values of the ticks _optimalTicks
\* returns are data indices of [from, to-1], strictly increasing, and the first
\* tick is at the first visible bar (value = from) with the label of a bar that
\* has no previous group.
TickSequenceShape ==
  Built /\ interval \in RecognisedIntervals /\ visibleRange.from < visibleRange.to =>
    /\ Len(call.ticks) >= 1
    /\ call.ticks[1].value = visibleRange.from
    /\ call.ticks[1].text = ContextLabel(BarAt(visibleRange.from).timestamp)
    /\ \A k \in 1..Len(call.ticks) :
         /\ call.ticks[k].value \in visibleRange.from .. visibleRange.to - 1
         /\ k > 1 => call.ticks[k - 1].value < call.ticks[k].value

\* two ticks have been returned for two visible bars whose first bar is not
\* the first of the data list
TickSequenceWitness ==
  /\ Built
  /\ interval \in RecognisedIntervals
  /\ visibleRange.from > 0
  /\ Len(call.ticks) = 2
  /\ call.ticks[1].value = visibleRange.from
  /\ call.ticks[2].value = visibleRange.to - 1

\* the bars whose slot the click's x lies in and whose reach, 20 pixels beyond
\* the high and the low, the click's y lies strictly inside
BarsHit(event) ==
  { i \in 0 .. Len(dataList) - 1 :
      /\ dataIndexToCoordinate(i) - getBarSpace.halfBar <= event.x
      /\ event.x < dataIndexToCoordinate(i) - getBarSpace.halfBar + barSpace
      /\ event.y > (PaneHeight - BarAt(i).high) - 20
      /\ event.y < (PaneHeight - BarAt(i).low) + 20 }

\* C16  Candle click guard: the click handler executes OnCandleBarClick, once
\* and with the bar's timestamp, exactly when no overlay is being drawn, the
\* click's x is in the slot of a bar and its y is strictly between highY - 20
\* and lowY + 20 of that bar; otherwise, and always while an overlay is being
\* drawn, it executes nothing.
CandleClickGuard ==
  call.op = "mouseClickEvent" =>
    /\ drawing => call.executed = <<>>
    /\ IF ~drawing /\ BarsHit(call.event) # {}
       THEN \E i \in BarsHit(call.event) :
              call.executed = << [type |-> "OnCandleBarClick",
                                  data |-> [timestamp |-> BarAt(i).timestamp]] >>
       ELSE call.executed = <<>>

\* with no overlay being drawn, a click 19 pixels below the low of the second
\* bar has executed the action, with that bar's timestamp
CandleClickWitness ==
  /\ call.op = "mouseClickEvent"
  /\ ~drawing
  /\ HasBar(1)
  /\ call.event.x = dataIndexToCoordinate(1)
  /\ call.event.y = (PaneHeight - BarAt(1).low) + 19
  /\ call.executed = << [type |-> "OnCandleBarClick",
                         data |-> [timestamp |-> BarAt(1).timestamp]] >>

\* the fraction of the bracket of a price: 1 below 200, 2 below 500, 5 below
\* 2000, 10 below 5000, 25 from 5000
BracketFraction(p) ==
  CASE p < 200 -> 1
    [] 200 <= p /\ p < 500 -> 2
    [] 500 <= p /\ p < 2000 -> 5
    [] 2000 <= p /\ p < 5000 -> 10
    [] OTHER -> 25

\* C17  Price rounding idempotence: for every non-negative integer price p,
\* roundPrice(p) is a multiple of the fraction of p's bracket, and rounding the
\* result again gives the same result, also when the result has crossed a
\* bracket threshold.
RoundPriceIdempotent ==
  call.op = "roundPrice" =>
    /\ call.res % BracketFraction(call.arg) = 0
    /\ roundPrice(call.res) = call.res

\* a price just below a threshold has been rounded across it, into the next bracket
RoundPriceWitness ==
  /\ call.op = "roundPrice"
  /\ call.arg = 4995
  /\ call.res = 5000
  /\ BracketFraction(call.res) # BracketFraction(call.arg)

====
